---- MODULE Spec2Model ----
(***************************************************************************)
(* Model of src/app.py: the dengue dashboard script of Recife, 2024.       *)
(*                                                                         *)
(* The script is one top-to-bottom run per user interaction.  It loads the *)
(* CSV once (st.cache_data), applies the district and confirmation         *)
(* filters, exports the filtered frame, and computes the KPIs, the daily   *)
(* and weekly series, the neighbourhood ranking and the age pyramid.       *)
(*                                                                         *)
(* Representation.  A delimited text is a sequence of lines; a line is a   *)
(* sequence of tokens, each an atomic cell text or a delimiter token.  A   *)
(* DataFrame is [columns, floats, rows]: the ordered column names, the set *)
(* of columns of dtype float64, and the rows, each [i, c] with i the       *)
(* pandas index label and c the cells by column name.  A missing number is *)
(* NaN, a missing date NaT, a missing text the empty string (read_csv      *)
(* reads an empty field as missing and to_csv writes a missing value as an *)
(* empty field).  Dates are the days of January 2024, held as day numbers. *)
(***************************************************************************)
EXTENDS Integers, Sequences, FiniteSets, TLC

VARIABLES
    file,                  \* the bytes at CAMINHO_ARQUIVO
    cache,                 \* st.cache_data entry of carregar_dados_2024
    sessions,              \* the browser sessions running the script
    pc,                    \* per session: position in the script
    heap,                  \* per session: the DataFrame objects, by object name
    df_filtrado_geo,       \* per session: reference to a DataFrame object
    df_final,              \* per session: reference to a DataFrame object
    df_idade,              \* per session: reference to a DataFrame object
    tipo_visualizacao,     \* per session: the radio's value
    distrito_selecionado,  \* per session: the multiselect's value
    csv,                   \* per session: the bytes handed to the download button
    total_casos,
    casos_graves,
    percentual_graves,
    bairro_pior,
    casos_diarios,
    casos_semanais,
    casos_por_bairro,
    df_pyramid,
    erro                   \* per session: st.error message or uncaught exception

vars == <<file, cache, sessions, pc, heap, df_filtrado_geo, df_final, df_idade,
          tipo_visualizacao, distrito_selecionado, csv, total_casos,
          casos_graves, percentual_graves, bairro_pior, casos_diarios,
          casos_semanais, casos_por_bairro, df_pyramid, erro>>

(***************************************************************************)
(* Bounds of the model.                                                    *)
(***************************************************************************)
MaxRows == 2        \* data rows of a source file of the general family
MaxDay == 9         \* notification dates are 2024-01-01 .. 2024-01-MaxDay
MaxNumeral == 130   \* numerals 0 .. MaxNumeral are the numbers a cell can hold
MaxPerDay == 2      \* notifications per day in the daily-series family
MaxSessions == 2    \* concurrent sessions in the concurrency family

(***************************************************************************)
(* Missing values.                                                         *)
(***************************************************************************)
NaN == -1
NaT == 0

Range(s) == {s[k] : k \in DOMAIN s}

RECURSIVE SumSeq(_)
SumSeq(s) == IF s = <<>> THEN 0 ELSE Head(s) + SumSeq(Tail(s))

Map(Op(_), s) == [k \in DOMAIN s |-> Op(s[k])]

IndexOf(s, x) == CHOOSE k \in DOMAIN s : s[k] = x

(***************************************************************************)
(* Delimited text.                                                         *)
(***************************************************************************)
\* A row of cells written with a delimiter between the cells.
\* A character outside ASCII is written <XX>, XX its code point in
\* hexadecimal: in latin1 that is its one byte, in UTF-8 it is two bytes.
RECURSIVE Join(_, _)
Join(cells, sep) ==
    IF cells = <<>> THEN <<>>
    ELSE IF Len(cells) = 1 THEN <<cells[1]>>
    ELSE <<cells[1], sep>> \o Join(Tail(cells), sep)

\* The fields of a line: the text between the occurrences of the delimiter.
\* Any other token, another delimiter included, is ordinary text of a field.
RECURSIVE Split(_, _)
Split(line, sep) ==
    IF line = <<>> THEN <<"">>
    ELSE LET rest == Split(Tail(line), sep) IN
         IF Head(line) = sep THEN <<"">> \o rest
         ELSE <<Head(line) \o Head(rest)>> \o Tail(rest)

\* UTF-8 bytes read back as Latin-1: ASCII text is unchanged, every accented
\* letter becomes two characters.
Mojibake(tok) ==
    CASE tok = "DS III - Casa Amarela-Dois Irm<E3>os" -> "DS III - Casa Amarela-Dois Irm<C3><A3>os"
      [] tok = "DS IV - Caxang<E1>-V<E1>rzea" -> "DS IV - Caxang<C3><A1>-V<C3><A1>rzea"
      [] tok = "DS V - Afogados-Tejipi<F3>" -> "DS V - Afogados-Tejipi<C3><B3>"
      [] tok = "DS VIII - Jord<E3>o" -> "DS VIII - Jord<C3><A3>o"
      [] tok = "V<C1>RZEA" -> "V<C3><81>RZEA"
      [] OTHER -> tok

\* bytes.decode(encoding).  Latin-1 decodes every byte sequence.
Decode(bytes, encoding) ==
    IF bytes.encoding = encoding THEN bytes.lines
    ELSE [k \in DOMAIN bytes.lines |-> Map(Mojibake, bytes.lines[k])]

\* str.lower().str.strip() on the header names.
LowerStrip(name) ==
    CASE name = "DT_NOTIFIC" -> "dt_notific"
      [] name = " CLASSI_FIN" -> "classi_fin"
      [] name = "ID_DISTRIT " -> "id_distrit"
      [] name = "NM_BAIRRO" -> "nm_bairro"
      [] name = "NU_IDADE_N" -> "nu_idade_n"
      [] name = "CS_SEXO" -> "cs_sexo"
      [] OTHER -> name

(***************************************************************************)
(* Parsers of cell text.                                                   *)
(***************************************************************************)
DateText(d) == "2024-01-" \o (IF d < 10 THEN "0" ELSE "") \o ToString(d)

\* The texts of the dates and of the numerals of the model.
DateTexts == [d \in 1..MaxDay |-> DateText(d)]
Numerals == [n \in 0..MaxNumeral |-> ToString(n)]
Decimals == [n \in 0..MaxNumeral |-> ToString(n) \o ".0"]

\* pd.to_datetime(errors='coerce') of one cell.
to_datetime(text) ==
    IF \E d \in 1..MaxDay : DateTexts[d] = text
    THEN CHOOSE d \in 1..MaxDay : DateTexts[d] = text
    ELSE NaT

\* pd.to_numeric(errors='coerce') of one cell: a numeral, also with a ".0"
\* fraction, is its number; anything else is NaN.
to_numeric(text) ==
    IF \E n \in 0..MaxNumeral : Numerals[n] = text \/ Decimals[n] = text
    THEN CHOOSE n \in 0..MaxNumeral : Numerals[n] = text \/ Decimals[n] = text
    ELSE NaN

\* .dt.month_name(): every date of the model is in January.
month_name(d) == IF d = NaT THEN "" ELSE "January"

\* .dt.isocalendar().week: 2024-01-01 is a Monday, so ISO week 1 of 2024 is
\* January 1..7, week 2 is January 8..14, and so on.
isocalendar_week(d) == IF d = NaT THEN NaN ELSE ((d - 1) \div 7) + 1

(***************************************************************************)
(* DataFrames.                                                             *)
(***************************************************************************)
EmptyDataFrame == [columns |-> <<>>, floats |-> {}, rows |-> <<>>]

HasColumn(frame, col) == col \in Range(frame.columns)

\* DataFrame.empty: an axis of length 0.
IsEmpty(frame) == frame.columns = <<>> \/ frame.rows = <<>>

\* frame[col] = values, values[k] being the value for the k-th row.
SetColumn(frame, col, values, isFloat) ==
    [columns |-> IF HasColumn(frame, col) THEN frame.columns
                 ELSE Append(frame.columns, col),
     floats  |-> IF isFloat THEN frame.floats \cup {col} ELSE frame.floats \ {col},
     rows    |-> [k \in DOMAIN frame.rows |->
                    [i |-> frame.rows[k].i,
                     c |-> [x \in DOMAIN frame.rows[k].c \cup {col} |->
                              IF x = col THEN values[k] ELSE frame.rows[k].c[x]]]]]

Column(frame, col) == [k \in DOMAIN frame.rows |-> frame.rows[k].c[col]]

\* frame[mask]: a new frame with the rows the predicate keeps, in order.
Select(frame, Keep(_)) ==
    [columns |-> frame.columns, floats |-> frame.floats,
     rows |-> SelectSeq(frame.rows, Keep)]


(***************************************************************************)
(* pd.read_csv(CAMINHO_ARQUIVO, sep=';', encoding='latin1').               *)
(***************************************************************************)
IsIntegerText(text) == \E n \in 0..MaxNumeral : text = Numerals[n]

IsNumericText(text) == text = "" \/ to_numeric(text) # NaN

\* The dtype read_csv infers: a column of numerals and blanks that is not all
\* integer numerals is float64.
InferredFloat(texts) ==
    /\ \A k \in DOMAIN texts : IsNumericText(texts[k])
    /\ \E k \in DOMAIN texts : ~IsIntegerText(texts[k])

\* [ok, frame]: ok is FALSE for EmptyDataError (no header line) and for
\* ParserError (a data line with more fields than the header).  A line with
\* fewer fields has its last cells missing.
read_csv(bytes, sep, encoding) ==
    LET lines  == Decode(bytes, encoding)
        header == Split(lines[1], sep)
        data   == [k \in 1..(Len(lines) - 1) |-> Split(lines[k + 1], sep)]
        cell(k, n) == IF n <= Len(data[k]) THEN data[k][n] ELSE ""
        rows   == [k \in DOMAIN data |->
                     [i |-> k - 1,
                      c |-> [col \in Range(header) |-> cell(k, IndexOf(header, col))]]]
    IN  IF lines = <<>> THEN [ok |-> FALSE, frame |-> EmptyDataFrame]
        ELSE IF \E k \in DOMAIN data : Len(data[k]) > Len(header)
        THEN [ok |-> FALSE, frame |-> EmptyDataFrame]
        ELSE [ok |-> TRUE,
              frame |-> [columns |-> header,
                         floats |-> {col \in Range(header) :
                                       InferredFloat([k \in DOMAIN rows |-> rows[k].c[col]])},
                         rows |-> rows]]

\* df.columns = df.columns.str.lower().str.strip()
RenameColumns(frame) ==
    [columns |-> Map(LowerStrip, frame.columns),
     floats  |-> {LowerStrip(col) : col \in frame.floats},
     rows    |-> [k \in DOMAIN frame.rows |->
                    [i |-> frame.rows[k].i,
                     c |-> [x \in {LowerStrip(col) : col \in Range(frame.columns)} |->
                              frame.rows[k].c[CHOOSE col \in Range(frame.columns) :
                                                LowerStrip(col) = x]]]]]

\* pd.to_numeric(frame[col], errors='coerce') stored back into frame[col].
ToNumericColumn(frame, col) ==
    LET texts == Column(frame, col)
    IN  SetColumn(frame, col, Map(to_numeric, texts),
                  col \in frame.floats \/ \E k \in DOMAIN texts : ~IsIntegerText(texts[k]))

MAPA_DISTRITOS ==
    117 :> "DS I - Centro Expandido"
 @@ 118 :> "DS II - Encruzilhada-Beberibe"
 @@ 119 :> "DS III - Casa Amarela-Dois Irm<E3>os"
 @@ 120 :> "DS IV - Caxang<E1>-V<E1>rzea"
 @@ 121 :> "DS V - Afogados-Tejipi<F3>"
 @@ 122 :> "DS VI - Ibura-Boa Viagem"
 @@ 123 :> "DS VII - Noroeste"
 @@ 124 :> "DS VIII - Jord<E3>o"

\* Series.astype(str) of one value of an int64 or float64 column.
astype_str(v, isFloat) ==
    IF v = NaN THEN "nan"
    ELSE IF isFloat THEN ToString(v) \o ".0"
    ELSE ToString(v)

nome_distrito_sentinela(v, isFloat) ==
    IF v \in DOMAIN MAPA_DISTRITOS THEN MAPA_DISTRITOS[v] ELSE "N<E3>o identificado"

\* df['id_distrit'].map(MAPA_DISTRITOS).fillna(df['id_distrit'].astype(str))
nome_distrito(v, isFloat) ==
    IF v \in DOMAIN MAPA_DISTRITOS THEN MAPA_DISTRITOS[v] ELSE astype_str(v, isFloat)

\* df = df[df['classi_fin'] != 5]   # Remove descartados
descartado == 5

RemoveDescartados(frame) == Select(frame, LAMBDA r : r.c["classi_fin"] # descartado)

\* Lines 50-54: the district columns, when the source has id_distrit.
TratamentoDistritos(frame) ==
    IF HasColumn(frame, "id_distrit")
    THEN LET f == ToNumericColumn(frame, "id_distrit")
             isFloat == "id_distrit" \in f.floats
         IN  SetColumn(f, "nome_distrito",
                       [k \in DOMAIN f.rows |-> nome_distrito(f.rows[k].c["id_distrit"], isFloat)],
                       FALSE)
    ELSE frame

\* Lines 56-57: the age column, when the source has nu_idade_n.
TratamentoIdade(frame) ==
    IF HasColumn(frame, "nu_idade_n") THEN ToNumericColumn(frame, "nu_idade_n") ELSE frame

ArquivoNaoEncontrado == "Arquivo n<E3>o encontrado"
ErroAoLer == "Erro ao ler o arquivo"

\* Lines 38-44: the date and the columns derived from it.
TratamentoDatas(frame) ==
    LET datas == Map(to_datetime, Column(frame, "dt_notific"))
    IN  SetColumn(SetColumn(SetColumn(frame, "dt_notific", datas, FALSE),
                            "mes", Map(month_name, datas), FALSE),
                  "semana_epidemiologica", Map(isocalendar_week, datas), FALSE)

\* Lines 46-48: the classification code, numeric, without the discarded cases.
TratamentoClassificacao(frame) == RemoveDescartados(ToNumericColumn(frame, "classi_fin"))

\* The body of the try block after read_csv, for a frame with both columns.
Tratamentos(frame) ==
    TratamentoIdade(TratamentoDistritos(TratamentoClassificacao(TratamentoDatas(frame))))

\* What the try block does with the frame read: KeyError when dt_notific or
\* classi_fin is not a column.
AposLeitura(frame) ==
    IF ~HasColumn(frame, "dt_notific") \/ ~HasColumn(frame, "classi_fin")
    THEN [df |-> EmptyDataFrame, erro |-> ErroAoLer]
    ELSE [df |-> Tratamentos(frame), erro |-> ""]

AposRead(r) ==
    IF ~r.ok THEN [df |-> EmptyDataFrame, erro |-> ErroAoLer]
    ELSE AposLeitura(RenameColumns(r.frame))

\* carregar_dados_2024(): [df, erro].  FileNotFoundError and every other
\* exception of the body (EmptyDataError, ParserError, the KeyError of a
\* missing dt_notific or classi_fin column) end in an empty DataFrame and a
\* message.
carregar_dados_2024(bytes) ==
    IF ~bytes.exists
    THEN [df |-> EmptyDataFrame, erro |-> ArquivoNaoEncontrado]
    ELSE AposRead(read_csv(bytes, ";", "latin1"))

(***************************************************************************)
(* The filters (lines 76-103).                                             *)
(***************************************************************************)
Todas == "Todas Notifica<E7><F5>es"
Confirmados == "Apenas Casos Confirmados"

codigos_confirmados_sem_grave == {10, 11}

codigos_confirmados == {10, 11, 12}

\* The status the script's two tests on classi_fin give a record: line 48
\* removes code 5 ("descartados"), line 97 keeps codes 10, 11 and 12
\* ("confirmados"), and the rest is shown only among all notifications
\* ("suspeitos", line 102).
caseStatus(code) ==
    IF code = descartado THEN "Descartado"
    ELSE IF code \in codigos_confirmados THEN "Confirmado"
    ELSE "Suspeito"

\* sorted(df['nome_distrito'].dropna().unique()): the options of the multiselect.
distritos_disponiveis(frame) ==
    {frame.rows[k].c["nome_distrito"] : k \in DOMAIN frame.rows} \ {""}

FiltroDistritoSoMapeados(frame, selecionado) ==
    Select(frame, LAMBDA r : r.c["nome_distrito"] \in selecionado
                             \/ r.c["id_distrit"] \notin 117..124)

\* df[df['nome_distrito'].isin(distrito_selecionado)]
FiltroDistrito(frame, selecionado) ==
    Select(frame, LAMBDA r : r.c["nome_distrito"] \in selecionado)

\* df_filtrado_geo[df_filtrado_geo['classi_fin'].isin(codigos_confirmados)]
FiltroConfirmados(frame) ==
    Select(frame, LAMBDA r : r.c["classi_fin"] \in codigos_confirmados)

(***************************************************************************)
(* The export (lines 110-111).                                             *)
(***************************************************************************)
\* The text to_csv writes for one value.
RenderCell(frame, col, v) ==
    IF col = "dt_notific" THEN (IF v = NaT THEN "" ELSE DateText(v))
    ELSE IF col \in {"semana_epidemiologica", "classi_fin", "id_distrit", "nu_idade_n"}
    THEN (IF v = NaN THEN ""
          ELSE IF col \in frame.floats THEN ToString(v) \o ".0"
          ELSE ToString(v))
    ELSE v

\* df_final.to_csv(index=False).encode('utf-8'): the default delimiter is ",".
to_csv(frame) ==
    [exists |-> TRUE, encoding |-> "utf-8",
     lines |-> <<Join(frame.columns, ",")>> \o
               [k \in DOMAIN frame.rows |->
                  Join([n \in DOMAIN frame.columns |->
                          RenderCell(frame, frame.columns[n],
                                     frame.rows[k].c[frame.columns[n]])], ",")]]

(***************************************************************************)
(* The KPIs (lines 124-133).                                               *)
(***************************************************************************)
NaNratio == [num |-> 0, den |-> 0]
Ratio(n, d) == [num |-> n, den |-> d]

PercentualSemGuarda(graves, total) ==
    IF total # 0 THEN Ratio(graves * 100, total) ELSE NaNratio

\* (casos_graves / total_casos * 100) if total_casos > 0 else 0
PercentualGraves(graves, total) ==
    IF total > 0 THEN Ratio(graves * 100, total) ELSE Ratio(0, 1)

\* Alphabetical order of the neighbourhood names.
Alfabetico == <<"IBURA", "V<C1>RZEA">>

CountOf(frame, col, v) == Cardinality({k \in DOMAIN frame.rows : frame.rows[k].c[col] = v})

\* Series.mode(): the most frequent values, missing ones dropped, sorted.
mode(frame, col) ==
    LET present == {frame.rows[k].c[col] : k \in DOMAIN frame.rows} \ {""}
        best == {v \in present : \A w \in present : CountOf(frame, col, w) <= CountOf(frame, col, v)}
    IN  SelectSeq(Alfabetico, LAMBDA v : v \in best)

(***************************************************************************)
(* The series (lines 143-152).                                             *)
(***************************************************************************)
window == 7

RECURSIVE SortedSeq(_)
SortedSeq(S) ==
    IF S = {} THEN <<>>
    ELSE LET m == CHOOSE x \in S : \A y \in S : x <= y
         IN  <<m>> \o SortedSeq(S \ {m})

GroupSizeKeepMissing(frame, col, missing) ==
    LET keys == SortedSeq({frame.rows[k].c[col] : k \in DOMAIN frame.rows})
    IN  [n \in DOMAIN keys |-> [key |-> keys[n], Casos |-> CountOf(frame, col, keys[n])]]

\* groupby(col).size().reset_index(name='Casos'): one entry per key present,
\* missing keys dropped, keys ascending.
GroupSize(frame, col, missing) ==
    LET keys == SortedSeq({frame.rows[k].c[col] : k \in DOMAIN frame.rows} \ {missing})
    IN  [n \in DOMAIN keys |-> [key |-> keys[n], Casos |-> CountOf(frame, col, keys[n])]]

rolling_mean_min_periods_1(counts, w) ==
    [n \in DOMAIN counts |->
       IF n < w THEN Ratio(SumSeq(SubSeq(counts, 1, n)), n)
       ELSE Ratio(SumSeq(SubSeq(counts, n - w + 1, n)), w)]

\* Series.rolling(window=w).mean(): min_periods is the window.
rolling_mean(counts, w) ==
    [n \in DOMAIN counts |->
       IF n < w THEN NaNratio
       ELSE Ratio(SumSeq(SubSeq(counts, n - w + 1, n)), w)]

\* casos_diarios with its Media_Movel_7d column.
CasosDiarios(frame) ==
    LET g == GroupSize(frame, "dt_notific", NaT)
        m == rolling_mean([n \in DOMAIN g |-> g[n].Casos], window)
    IN  [n \in DOMAIN g |->
           [dt_notific |-> g[n].key, Casos |-> g[n].Casos, Media_Movel_7d |-> m[n]]]

CasosSemanais(frame) ==
    LET g == GroupSize(frame, "semana_epidemiologica", NaN)
    IN  [n \in DOMAIN g |-> [semana_epidemiologica |-> g[n].key, Casos |-> g[n].Casos]]

(***************************************************************************)
(* The ranking (lines 206-208).                                            *)
(***************************************************************************)
top == 10

\* value_counts().head(10): the counts of the names present, descending; the
\* order among equal counts is whatever the sort leaves.
IsValueCounts(frame, col, ranking) ==
    LET present == {frame.rows[k].c[col] : k \in DOMAIN frame.rows} \ {""}
    IN  /\ Len(ranking) = IF Cardinality(present) < top THEN Cardinality(present) ELSE top
        /\ \A n \in DOMAIN ranking :
              /\ ranking[n].Bairro \in present
              /\ ranking[n].Casos = CountOf(frame, col, ranking[n].Bairro)
        /\ \A n, m \in DOMAIN ranking :
              /\ n < m => ranking[n].Casos >= ranking[m].Casos
              /\ n # m => ranking[n].Bairro # ranking[m].Bairro
        /\ \A v \in present :
              (\E n \in DOMAIN ranking : ranking[n].Bairro = v)
              \/ \A n \in DOMAIN ranking : ranking[n].Casos >= CountOf(frame, col, v)

RECURSIVE Perms(_)
Perms(S) ==
    IF S = {} THEN {<<>>}
    ELSE UNION {{<<x>> \o p : p \in Perms(S \ {x})} : x \in S}

ValueCounts(frame, col) ==
    LET present == {frame.rows[k].c[col] : k \in DOMAIN frame.rows} \ {""}
        all == {[n \in DOMAIN p |-> [Bairro |-> p[n], Casos |-> CountOf(frame, col, p[n])]] :
                  p \in Perms(present)}
        cut == {IF Len(r) > top THEN SubSeq(r, 1, top) ELSE r : r \in all}
    IN  {r \in cut : IsValueCounts(frame, col, r)}

(***************************************************************************)
(* The age pyramid (lines 223-235).                                        *)
(***************************************************************************)
bins == <<0, 10, 20, 30, 40, 50, 60, 70, 80, 100>>
labels == <<"0-9", "10-19", "20-29", "30-39", "40-49", "50-59", "60-69", "70-79", "80+">>

\* pd.cut(age, bins=bins, labels=labels, right=False): missing outside the bins.
faixa_etaria(age) ==
    IF \E n \in DOMAIN labels : bins[n] <= age /\ age < bins[n + 1]
    THEN labels[CHOOSE n \in DOMAIN labels : bins[n] <= age /\ age < bins[n + 1]]
    ELSE ""

\* (df_final['nu_idade_n'] < 100) & (df_final['cs_sexo'].isin(['M', 'F']))
MascaraIdade(r) ==
    /\ r.c["nu_idade_n"] # NaN
    /\ r.c["nu_idade_n"] < 100
    /\ r.c["cs_sexo"] \in {"M", "F"}

df_idade_alias(finalRef) == finalRef

\* Boolean indexing builds a new DataFrame object: df_idade never is df_final.
df_idade_ref(finalRef) == "idade"

\* groupby(['faixa_etaria', 'cs_sexo'], observed=False).size(): every age
\* bucket, crossed with the sexes present, zero counts included; then the
\* Casos_Plot column.
GroupPyramid(frame) ==
    LET sexos == SelectSeq(<<"F", "M">>,
                           LAMBDA x : \E k \in DOMAIN frame.rows : frame.rows[k].c["cs_sexo"] = x)
        casos(f, x) == Cardinality({k \in DOMAIN frame.rows :
                                      /\ frame.rows[k].c["faixa_etaria"] = f
                                      /\ frame.rows[k].c["cs_sexo"] = x})
    IN  [n \in 1..(Len(labels) * Len(sexos)) |->
           LET f == labels[((n - 1) \div Len(sexos)) + 1]
               x == sexos[((n - 1) % Len(sexos)) + 1]
           IN  [faixa_etaria |-> f, cs_sexo |-> x, Casos |-> casos(f, x),
                Casos_Plot |-> IF x = "M" THEN 0 - casos(f, x) ELSE casos(f, x)]]

(***************************************************************************)
(* The script, one step per section, run by each session.                  *)
(***************************************************************************)
SessionIds == 1..MaxSessions
Objects == {"df", "geo", "final", "idade"}
NoBytes == [exists |-> FALSE, encoding |-> "", lines |-> <<>>]

Deref(s, ref) == heap[s][ref]

\* The names a fresh run of the script starts with.
Fresh(s) ==
    /\ heap' = [heap EXCEPT ![s] = [o \in Objects |-> EmptyDataFrame]]
    /\ df_filtrado_geo' = [df_filtrado_geo EXCEPT ![s] = "none"]
    /\ df_final' = [df_final EXCEPT ![s] = "none"]
    /\ df_idade' = [df_idade EXCEPT ![s] = "none"]
    /\ tipo_visualizacao' = [tipo_visualizacao EXCEPT ![s] = ""]
    /\ distrito_selecionado' = [distrito_selecionado EXCEPT ![s] = {}]
    /\ csv' = [csv EXCEPT ![s] = NoBytes]
    /\ total_casos' = [total_casos EXCEPT ![s] = 0]
    /\ casos_graves' = [casos_graves EXCEPT ![s] = 0]
    /\ percentual_graves' = [percentual_graves EXCEPT ![s] = NaNratio]
    /\ bairro_pior' = [bairro_pior EXCEPT ![s] = ""]
    /\ casos_diarios' = [casos_diarios EXCEPT ![s] = <<>>]
    /\ casos_semanais' = [casos_semanais EXCEPT ![s] = <<>>]
    /\ casos_por_bairro' = [casos_por_bairro EXCEPT ![s] = <<>>]
    /\ df_pyramid' = [df_pyramid EXCEPT ![s] = <<>>]
    /\ erro' = [erro EXCEPT ![s] = ""]

Start ==
    /\ cache = [set |-> FALSE, value |-> [df |-> EmptyDataFrame, erro |-> ""]]
    /\ pc = [s \in SessionIds |-> "start"]
    /\ heap = [s \in SessionIds |-> [o \in Objects |-> EmptyDataFrame]]
    /\ df_filtrado_geo = [s \in SessionIds |-> "none"]
    /\ df_final = [s \in SessionIds |-> "none"]
    /\ df_idade = [s \in SessionIds |-> "none"]
    /\ tipo_visualizacao = [s \in SessionIds |-> ""]
    /\ distrito_selecionado = [s \in SessionIds |-> {}]
    /\ csv = [s \in SessionIds |-> NoBytes]
    /\ total_casos = [s \in SessionIds |-> 0]
    /\ casos_graves = [s \in SessionIds |-> 0]
    /\ percentual_graves = [s \in SessionIds |-> NaNratio]
    /\ bairro_pior = [s \in SessionIds |-> ""]
    /\ casos_diarios = [s \in SessionIds |-> <<>>]
    /\ casos_semanais = [s \in SessionIds |-> <<>>]
    /\ casos_por_bairro = [s \in SessionIds |-> <<>>]
    /\ df_pyramid = [s \in SessionIds |-> <<>>]
    /\ erro = [s \in SessionIds |-> ""]

\* Lines 26-71: df = carregar_dados_2024() through st.cache_data, which runs
\* the function once and hands every caller its own copy of the result, the
\* st.error message included; then st.stop() on an empty frame.
Load(s) ==
    /\ pc[s] = "start"
    /\ LET res == IF cache.set THEN cache.value ELSE carregar_dados_2024(file)
       IN  /\ cache' = [set |-> TRUE, value |-> res]
           /\ heap' = [heap EXCEPT ![s]["df"] = res.df]
           /\ erro' = [erro EXCEPT ![s] = res.erro]
           /\ pc' = [pc EXCEPT ![s] = IF IsEmpty(res.df) THEN "stopped" ELSE "filtros"]
    /\ UNCHANGED <<file, sessions, df_filtrado_geo, df_final, df_idade,
                   tipo_visualizacao, distrito_selecionado, csv, total_casos,
                   casos_graves, percentual_graves, bairro_pior, casos_diarios,
                   casos_semanais, casos_por_bairro, df_pyramid>>

\* Lines 76-103: the radio, the multiselect (a subset of its options) and the
\* two filters.  Without the nome_distrito column df_filtrado_geo is df
\* itself; in the all-notifications mode df_final is df_filtrado_geo itself.
Filtros(s) ==
    /\ pc[s] = "filtros"
    /\ LET df == Deref(s, "df")
           temDistrito == HasColumn(df, "nome_distrito")
       IN  \E tipo \in {Todas, Confirmados} :
           \E selecionado \in (IF temDistrito THEN SUBSET distritos_disponiveis(df) ELSE {{}}) :
              LET geo == IF temDistrito THEN FiltroDistrito(df, selecionado) ELSE df
                  geoRef == IF temDistrito THEN "geo" ELSE "df"
              IN  /\ tipo_visualizacao' = [tipo_visualizacao EXCEPT ![s] = tipo]
                  /\ distrito_selecionado' = [distrito_selecionado EXCEPT ![s] = selecionado]
                  /\ df_filtrado_geo' = [df_filtrado_geo EXCEPT ![s] = geoRef]
                  /\ df_final' = [df_final EXCEPT ![s] =
                                    IF tipo = Confirmados THEN "final" ELSE geoRef]
                  /\ heap' = [heap EXCEPT ![s] =
                                [o \in Objects |->
                                   IF o = "geo" /\ temDistrito THEN geo
                                   ELSE IF o = "final" /\ tipo = Confirmados
                                   THEN FiltroConfirmados(geo)
                                   ELSE heap[s][o]]]
    /\ pc' = [pc EXCEPT ![s] = "download"]
    /\ UNCHANGED <<file, cache, sessions, df_idade, csv, total_casos, casos_graves,
                   percentual_graves, bairro_pior, casos_diarios, casos_semanais,
                   casos_por_bairro, df_pyramid, erro>>

\* Lines 110-117: the bytes of the download button.
Download(s) ==
    /\ pc[s] = "download"
    /\ csv' = [csv EXCEPT ![s] = to_csv(Deref(s, df_final[s]))]
    /\ pc' = [pc EXCEPT ![s] = "kpis"]
    /\ UNCHANGED <<file, cache, sessions, heap, df_filtrado_geo, df_final, df_idade,
                   tipo_visualizacao, distrito_selecionado, total_casos, casos_graves,
                   percentual_graves, bairro_pior, casos_diarios, casos_semanais,
                   casos_por_bairro, df_pyramid, erro>>

\* Lines 124-138.  mode()[0] of a column with no value present raises
\* KeyError, which nothing catches: the run ends there.
KPIs(s) ==
    /\ pc[s] = "kpis"
    /\ LET final == Deref(s, df_final[s])
           total == Len(final.rows)
           graves == Len(SelectSeq(final.rows, LAMBDA r : r.c["classi_fin"] = 12))
           usaModa == ~IsEmpty(final) /\ HasColumn(final, "nm_bairro")
           moda == IF usaModa THEN mode(final, "nm_bairro") ELSE <<>>
           falha == usaModa /\ moda = <<>>
       IN  /\ total_casos' = [total_casos EXCEPT ![s] = total]
           /\ casos_graves' = [casos_graves EXCEPT ![s] = graves]
           /\ percentual_graves' = [percentual_graves EXCEPT ![s] = PercentualGraves(graves, total)]
           /\ bairro_pior' = [bairro_pior EXCEPT ![s] =
                                IF falha THEN "" ELSE IF usaModa THEN moda[1] ELSE "-"]
           /\ erro' = [erro EXCEPT ![s] = IF falha THEN "KeyError" ELSE erro[s]]
           /\ pc' = [pc EXCEPT ![s] = IF falha THEN "crashed" ELSE "temporal"]
    /\ UNCHANGED <<file, cache, sessions, heap, df_filtrado_geo, df_final, df_idade,
                   tipo_visualizacao, distrito_selecionado, csv, casos_diarios,
                   casos_semanais, casos_por_bairro, df_pyramid>>

\* Lines 143-152: the daily series with its moving average and the weekly
\* series, only for a non-empty df_final.
Temporal(s) ==
    /\ pc[s] = "temporal"
    /\ LET final == Deref(s, df_final[s])
       IN  /\ casos_diarios' = [casos_diarios EXCEPT ![s] =
                                  IF IsEmpty(final) THEN <<>> ELSE CasosDiarios(final)]
           /\ casos_semanais' = [casos_semanais EXCEPT ![s] =
                                   IF IsEmpty(final) THEN <<>> ELSE CasosSemanais(final)]
    /\ pc' = [pc EXCEPT ![s] = "espacial"]
    /\ UNCHANGED <<file, cache, sessions, heap, df_filtrado_geo, df_final, df_idade,
                   tipo_visualizacao, distrito_selecionado, csv, total_casos,
                   casos_graves, percentual_graves, bairro_pior, casos_por_bairro,
                   df_pyramid, erro>>

\* Lines 204-208: the ten most frequent neighbourhoods.
Espacial(s) ==
    /\ pc[s] = "espacial"
    /\ LET final == Deref(s, df_final[s])
       IN  \E ranking \in (IF ~IsEmpty(final) /\ HasColumn(final, "nm_bairro")
                           THEN ValueCounts(final, "nm_bairro") ELSE {<<>>}) :
              casos_por_bairro' = [casos_por_bairro EXCEPT ![s] = ranking]
    /\ pc' = [pc EXCEPT ![s] = "piramide"]
    /\ UNCHANGED <<file, cache, sessions, heap, df_filtrado_geo, df_final, df_idade,
                   tipo_visualizacao, distrito_selecionado, csv, total_casos,
                   casos_graves, percentual_graves, bairro_pior, casos_diarios,
                   casos_semanais, df_pyramid, erro>>

\* Lines 221-235.  df_idade is a new object; faixa_etaria is written into it
\* in place.  What DataFrame.apply(axis=1) gives for an empty df_pyramid
\* depends on the pandas release: an empty Series, which becomes the empty
\* column Casos_Plot, or a DataFrame, whose assignment to the one column
\* raises ValueError, which nothing catches.  Both outcomes are kept.
Pyramid(s) ==
    /\ pc[s] = "piramide"
    /\ LET final == Deref(s, df_final[s])
           usa == HasColumn(final, "nu_idade_n") /\ HasColumn(final, "cs_sexo")
           ref == df_idade_ref(df_final[s])
           sel == Select(final, MascaraIdade)
           idade == SetColumn(sel, "faixa_etaria",
                              [k \in DOMAIN sel.rows |-> faixa_etaria(sel.rows[k].c["nu_idade_n"])],
                              FALSE)
           pyr == GroupPyramid(idade)
       IN  IF usa
           THEN \E raises \in (IF pyr = <<>> THEN {TRUE, FALSE} ELSE {FALSE}) :
                /\ df_idade' = [df_idade EXCEPT ![s] = ref]
                /\ heap' = [heap EXCEPT ![s][ref] = idade]
                /\ df_pyramid' = [df_pyramid EXCEPT ![s] = pyr]
                /\ erro' = [erro EXCEPT ![s] = IF raises THEN "ValueError" ELSE erro[s]]
                /\ pc' = [pc EXCEPT ![s] = IF raises THEN "crashed" ELSE "done"]
           ELSE /\ pc' = [pc EXCEPT ![s] = "done"]
                /\ UNCHANGED <<heap, df_idade, df_pyramid, erro>>
    /\ UNCHANGED <<file, cache, sessions, df_filtrado_geo, df_final,
                   tipo_visualizacao, distrito_selecionado, csv, total_casos,
                   casos_graves, percentual_graves, bairro_pior, casos_diarios,
                   casos_semanais, casos_por_bairro>>

\* A widget interaction or a page reload runs the script again from the top,
\* with fresh names; the cache entry stays.
Rerun(s) ==
    /\ pc[s] \in {"done", "crashed", "stopped"}
    /\ Fresh(s)
    /\ pc' = [pc EXCEPT ![s] = "start"]
    /\ UNCHANGED <<file, cache, sessions>>

Next ==
    \E s \in sessions :
        \/ Load(s)
        \/ Filtros(s)
        \/ Download(s)
        \/ KPIs(s)
        \/ Temporal(s)
        \/ Espacial(s)
        \/ Pyramid(s)
        \/ Rerun(s)

(***************************************************************************)
(* The source files the model starts from.                                 *)
(***************************************************************************)
Header == <<"DT_NOTIFIC", " CLASSI_FIN", "ID_DISTRIT ", "NM_BAIRRO", "NU_IDADE_N", "CS_SEXO">>

D2 == "2024-01-02"
D9 == "2024-01-09"
SemData == "sem data"

\* Data rows, cells in the order of Header.
RowList ==
    <<<<D2, "10", "117", "IBURA", "30", "F">>,
      <<D9, "12", "125", "", "7", "M">>,
      <<SemData, "", "", "V<C1>RZEA", "", "I">>,
      <<D2, "", "117", "IBURA", "30", "F">>,
      <<D2, "5", "117", "IBURA", "30", "F">>,
      <<D2, "12", "117", "IBURA", "30", "F">>,
      <<D9, "", "117", "IBURA", "30", "F">>,
      <<D9, "5", "117", "IBURA", "30", "F">>,
      <<D9, "10", "117", "IBURA", "30", "F">>,
      <<D9, "12", "117", "IBURA", "30", "F">>,
      <<SemData, "", "117", "IBURA", "30", "F">>,
      <<SemData, "5", "117", "IBURA", "30", "F">>,
      <<SemData, "10", "117", "IBURA", "30", "F">>,
      <<SemData, "12", "117", "IBURA", "30", "F">>,
      <<D2, "8", "117", "IBURA", "30", "F">>,
      <<D2, "11", "117", "IBURA", "30", "F">>,
      <<D2, "ign", "117", "IBURA", "30", "F">>,
      <<D2, "10", "", "IBURA", "30", "F">>,
      <<D2, "8", "", "IBURA", "30", "F">>,
      <<D2, "10", "125", "IBURA", "30", "F">>,
      <<D2, "8", "125", "IBURA", "30", "F">>,
      <<D2, "10", "118", "IBURA", "30", "F">>,
      <<D2, "10", "117", "", "30", "F">>,
      <<D2, "10", "117", "V<C1>RZEA", "30", "F">>,
      <<D2, "10", "125", "V<C1>RZEA", "30", "F">>,
      <<D2, "8", "117", "", "30", "F">>,
      <<D2, "10", "117", "IBURA", "105", "M">>,
      <<D2, "10", "117", "IBURA", "7", "M">>,
      <<D2, "10", "117", "IBURA", "", "F">>,
      <<D2, "10", "117", "IBURA", "30", "I">>>>

\* The first rows of RowList, used with the headers that lack a column.
VariantRows == 3

\* Up to maxRows rows drawn from the first n of RowList, in RowList order.
RowChoices(n, maxRows) ==
    UNION {{q \in [1..len -> 1..n] : \A a, b \in 1..len : a < b => q[a] <= q[b]} :
             len \in 0..maxRows}

DropAt(seq, k) == SubSeq(seq, 1, k - 1) \o SubSeq(seq, k + 1, Len(seq))

SourceFile(header, rows) ==
    [exists |-> TRUE, encoding |-> "latin1",
     lines |-> <<Join(header, ";")>> \o [k \in DOMAIN rows |-> Join(rows[k], ";")]]

MissingFile == [exists |-> FALSE, encoding |-> "latin1", lines |-> <<>>]

GeneralFiles ==
    {SourceFile(Header, [k \in DOMAIN q |-> RowList[q[k]]]) :
        q \in RowChoices(Len(RowList), MaxRows)}
    \cup {SourceFile(DropAt(Header, col), [k \in DOMAIN q |-> DropAt(RowList[q[k]], col)]) :
            col \in DOMAIN Header, q \in RowChoices(VariantRows, MaxRows)}
    \cup {MissingFile,
          [exists |-> TRUE, encoding |-> "latin1", lines |-> <<>>],
          SourceFile(Header, <<RowList[1] \o <<"x">>>>),
          SourceFile(Header, <<SubSeq(RowList[1], 1, 2), RowList[2]>>)}

\* The daily-series family: days 1..n, one notification a day, except day h
\* with k of them (none when k = 0); rows in ascending or descending date order.
RECURSIVE DayRows(_, _, _, _, _)
DayRows(d, n, h, k, asc) ==
    IF d > n THEN <<>>
    ELSE LET day == [j \in 1..(IF d = h THEN k ELSE 1) |->
                       <<DateText(d), "10", "117", "IBURA", "30", "F">>]
             rest == DayRows(d + 1, n, h, k, asc)
         IN  IF asc THEN day \o rest ELSE rest \o day

DailyFiles ==
    {SourceFile(Header, DayRows(1, n, h, k, asc)) :
        n \in 0..MaxDay, h \in 1..MaxDay, k \in 0..MaxPerDay, asc \in {TRUE, FALSE}}

\* The concurrency family: a source with every column and one without the
\* district column.
ConcurrentFiles ==
    {SourceFile(Header, <<RowList[1], RowList[2]>>),
     SourceFile(DropAt(Header, 3), <<DropAt(RowList[1], 3), DropAt(RowList[3], 3)>>)}

Init == file \in GeneralFiles /\ sessions = {1} /\ Start

InitDiario == file \in DailyFiles /\ sessions = {1} /\ Start

InitConcurrent == file \in ConcurrentFiles /\ sessions = SessionIds /\ Start

Spec == Init /\ [][Next]_vars

SpecDiario == InitDiario /\ [][Next]_vars

SpecConcurrent == InitConcurrent /\ [][Next]_vars

(***************************************************************************)
(* Properties.                                                             *)
(***************************************************************************)
\* How far the run of session s has come.
AfterFiltros(s) ==
    pc[s] \in {"download", "kpis", "temporal", "espacial", "piramide", "done", "crashed"}
AfterDownload(s) ==
    pc[s] \in {"kpis", "temporal", "espacial", "piramide", "done", "crashed"}
RanKPIs(s) == pc[s] \in {"temporal", "espacial", "piramide", "done", "crashed"}
AfterKPIs(s) ==
    \/ pc[s] \in {"temporal", "espacial", "piramide", "done"}
    \/ pc[s] = "crashed" /\ erro[s] = "ValueError"
AfterTemporal(s) ==
    \/ pc[s] \in {"espacial", "piramide", "done"}
    \/ pc[s] = "crashed" /\ erro[s] = "ValueError"
AfterEspacial(s) ==
    \/ pc[s] \in {"piramide", "done"}
    \/ pc[s] = "crashed" /\ erro[s] = "ValueError"

\* The source as read, before any treatment (for a source read_csv accepts).
Readable == file.exists /\ read_csv(file, ";", "latin1").ok
Raw == RenameColumns(read_csv(file, ";", "latin1").frame)

Dataset(s) == Deref(s, "df")
View(s) == Deref(s, df_final[s])
Labels(frame) == {frame.rows[k].i : k \in DOMAIN frame.rows}
Count(frame, P(_)) == Cardinality({k \in DOMAIN frame.rows : P(frame.rows[k])})

\* The four statuses of the claim C1.
ClaimedStatus(code) ==
    IF code \in {10, 11, 12} THEN "Confirmed"
    ELSE IF code = 5 THEN "Discarded"
    ELSE IF code = NaN THEN "UnderInvestigation"
    ELSE "Inconclusive"

\* C1 as stated: the case classifier is a total function of the code with
\* four statuses; 10, 11, 12 are Confirmed, 5 is Discarded, an absent code has
\* a status of its own (UnderInvestigation) and so have the other integers
\* (Inconclusive): records the claim gives different statuses never share one.
C1_FourStatuses ==
    \A s \in sessions : AfterFiltros(s) =>
        \A c1, c2 \in {to_numeric(row.c["classi_fin"]) : row \in Range(Raw.rows)} :
            ClaimedStatus(c1) # ClaimedStatus(c2) => caseStatus(c1) # caseStatus(c2)

\* C1 amended: the status is a total function of the code alone, with three
\* values: 10, 11, 12 are confirmed (the records the confirmed-only mode
\* keeps), 5 is discarded (removed at load, never in the Dataset), and every
\* other value, absent or any other number alike, is a suspected notification
\* (kept by the all-notifications mode only).
C1_ThreeStatuses ==
    \A s \in sessions : AfterFiltros(s) =>
        \A row \in Range(Raw.rows) :
            LET code == to_numeric(row.c["classi_fin"])
                inDataset == row.i \in Labels(Dataset(s))
                inGeo == row.i \in Labels(Deref(s, df_filtrado_geo[s]))
                inView == row.i \in Labels(View(s))
            IN  /\ caseStatus(code) \in {"Confirmado", "Descartado", "Suspeito"}
                /\ caseStatus(code) = "Confirmado" <=> code \in {10, 11, 12}
                /\ caseStatus(code) = "Descartado" <=> code = 5
                /\ caseStatus(code) = "Descartado" <=> ~inDataset
                /\ caseStatus(code) = "Confirmado" => (inView <=> inGeo)
                /\ caseStatus(code) = "Suspeito" =>
                      (inView <=> inGeo /\ tipo_visualizacao[s] = Todas)

\* A confirmed-only view that leaves out a record without a code and one
\* with another code, keeps a severe case, of a source with a discarded case.
C1_Witness ==
    \E s \in sessions :
        /\ AfterFiltros(s)
        /\ tipo_visualizacao[s] = Confirmados
        /\ \E row \in Range(Raw.rows) :
              /\ to_numeric(row.c["classi_fin"]) \in {NaN, 8}
              /\ row.i \in Labels(Deref(s, df_filtrado_geo[s]))
              /\ row.i \notin Labels(View(s))
        /\ \E row \in Range(Raw.rows) :
              /\ to_numeric(row.c["classi_fin"]) \in {5, 12}
              /\ to_numeric(row.c["classi_fin"]) = 12 <=> row.i \in Labels(View(s))

\* C2: the filtered view holds exactly the Dataset records whose district
\* name is selected and whose status is selected (every status in the
\* all-notifications mode, the confirmed ones in the confirmed-only mode), in
\* the Dataset's order, and the two filters commute.
C2_FilteredView ==
    \A s \in sessions : AfterFiltros(s) =>
        LET df == Dataset(s)
            temDistrito == HasColumn(df, "nome_distrito")
            keep(r) == /\ temDistrito => r.c["nome_distrito"] \in distrito_selecionado[s]
                       /\ tipo_visualizacao[s] = Confirmados => r.c["classi_fin"] \in {10, 11, 12}
        IN  /\ View(s).rows = SelectSeq(df.rows, keep)
            /\ temDistrito =>
                  \A sel \in SUBSET distritos_disponiveis(df) :
                      FiltroConfirmados(FiltroDistrito(df, sel))
                          = FiltroDistrito(FiltroConfirmados(df), sel)

\* A view that keeps one of two records: the other has an unselected
\* district or is not confirmed.
C2_Witness ==
    \E s \in sessions :
        /\ AfterFiltros(s)
        /\ Len(Dataset(s).rows) = 2
        /\ Len(View(s).rows) = 1
        /\ distrito_selecionado[s] # {}
        /\ distrito_selecionado[s] # distritos_disponiveis(Dataset(s))
        /\ tipo_visualizacao[s] = Confirmados

C4_Sentinel ==
    \A s \in sessions : AfterFiltros(s) /\ HasColumn(Dataset(s), "nome_distrito") =>
        \A k \in DOMAIN Dataset(s).rows :
            LET r == Dataset(s).rows[k].c
            IN  /\ r["nome_distrito"] # ""
                /\ \/ r["nome_distrito"] \in Range(MAPA_DISTRITOS)
                   \/ /\ r["nome_distrito"] \notin {ToString(r["id_distrit"]),
                                                    ToString(r["id_distrit"]) \o ".0"}
                      /\ \A j \in DOMAIN Dataset(s).rows :
                            Dataset(s).rows[j].c["nome_distrito"] \in Range(MAPA_DISTRITOS)
                            \/ Dataset(s).rows[j].c["nome_distrito"] = r["nome_distrito"]

\* C4 amended: in a Dataset built from a source with the district-code
\* column, every district name is non-empty: the table name for the codes
\* 117..124, the text "nan" for a missing or unparseable code, and the text of
\* the numeric code itself ("125" or "125.0") for any other code.  A source
\* without the column gives a Dataset without district names.
C4_NameOrRawCode ==
    \A s \in sessions : AfterFiltros(s) =>
        /\ HasColumn(Dataset(s), "nome_distrito") <=> HasColumn(Raw, "id_distrit")
        /\ HasColumn(Dataset(s), "nome_distrito") =>
              \A row \in Range(Raw.rows) : row.i \in Labels(Dataset(s)) =>
                  LET r == (CHOOSE x \in Range(Dataset(s).rows) : x.i = row.i).c
                      id == to_numeric(row.c["id_distrit"])
                  IN  /\ r["nome_distrito"] # ""
                      /\ id \in 117..124 => r["nome_distrito"] = MAPA_DISTRITOS[id]
                      /\ id = NaN => r["nome_distrito"] = "nan"
                      /\ id \notin (117..124) \cup {NaN} =>
                            r["nome_distrito"] \in {ToString(id), ToString(id) \o ".0"}

\* A Dataset with a table name and the raw code "125.0" (a float column,
\* another record having no code).
C4_Witness ==
    \E s \in sessions :
        /\ AfterFiltros(s)
        /\ HasColumn(Dataset(s), "nome_distrito")
        /\ \E k \in DOMAIN Dataset(s).rows :
              Dataset(s).rows[k].c["nome_distrito"] \in {"125", "125.0"}
        /\ \E k \in DOMAIN Dataset(s).rows :
              Dataset(s).rows[k].c["nome_distrito"] \in {"nan", "DS I - Centro Expandido"}

\* C5: the daily series is in ascending date order; its 7-point moving
\* average is undefined at the positions 0..5 and from position 6 on is the
\* mean of the seven counts ending there.
C5_MovingAverage ==
    \A s \in sessions : AfterTemporal(s) /\ Len(View(s).rows) > 0 =>
        LET cd == casos_diarios[s]
        IN  /\ \A a, b \in DOMAIN cd : a < b => cd[a].dt_notific < cd[b].dt_notific
            /\ \A n \in DOMAIN cd :
                  /\ cd[n].Casos = Count(View(s), LAMBDA r : r.c["dt_notific"] = cd[n].dt_notific)
                  /\ n - 1 < 6 => cd[n].Media_Movel_7d = [num |-> 0, den |-> 0]
                  /\ n - 1 >= 6 =>
                        /\ cd[n].Media_Movel_7d.den = 7
                        /\ cd[n].Media_Movel_7d.num =
                              cd[n - 6].Casos + cd[n - 5].Casos + cd[n - 4].Casos
                              + cd[n - 3].Casos + cd[n - 2].Casos + cd[n - 1].Casos + cd[n].Casos

\* A series of eight days or more whose windows at positions 6 and 7 differ.
C5_Witness ==
    \E s \in sessions :
        /\ AfterTemporal(s)
        /\ Len(casos_diarios[s]) >= 8
        /\ casos_diarios[s][7].Media_Movel_7d.den = 7
        /\ casos_diarios[s][7].Media_Movel_7d.num # casos_diarios[s][8].Media_Movel_7d.num
        /\ casos_diarios[s][6].Media_Movel_7d.den = 0

\* C6 as stated: the critical-neighbourhood computation never fails; a view
\* without any named neighbourhood gives "-", any other view a most frequent
\* named neighbourhood.
C6_ModeNeverFails ==
    \A s \in sessions : RanKPIs(s) =>
        LET v == View(s)
            named == IF HasColumn(v, "nm_bairro")
                     THEN {v.rows[k].c["nm_bairro"] : k \in DOMAIN v.rows} \ {""}
                     ELSE {}
        IN  /\ erro[s] # "KeyError"
            /\ named = {} => bairro_pior[s] = "-"
            /\ named # {} =>
                  /\ bairro_pior[s] \in named
                  /\ \A w \in named : CountOf(v, "nm_bairro", w) <= CountOf(v, "nm_bairro", bairro_pior[s])

\* C7: a record whose date does not parse stays in the Dataset and counts in
\* the total, and the daily and the weekly counts each sum to the number of
\* records of the view that have a date.
C7_DatelessRecords ==
    \A s \in sessions :
        /\ AfterFiltros(s) =>
              \A row \in Range(Raw.rows) :
                  to_numeric(row.c["classi_fin"]) # 5 =>
                      \E r \in Range(Dataset(s).rows) :
                          r.i = row.i /\ r.c["dt_notific"] = to_datetime(row.c["dt_notific"])
        /\ AfterKPIs(s) => total_casos[s] = Len(View(s).rows)
        /\ AfterTemporal(s) =>
              LET dated == Count(View(s), LAMBDA r : r.c["dt_notific"] # NaT)
              IN  /\ SumSeq([n \in DOMAIN casos_diarios[s] |-> casos_diarios[s][n].Casos]) = dated
                  /\ SumSeq([n \in DOMAIN casos_semanais[s] |-> casos_semanais[s][n].Casos]) = dated

\* A view of two records, one of them without a date.
C7_Witness ==
    \E s \in sessions :
        /\ AfterTemporal(s)
        /\ total_casos[s] = 2
        /\ Count(View(s), LAMBDA r : r.c["dt_notific"] = NaT) = 1
        /\ Len(casos_diarios[s]) = 1
        /\ Len(casos_semanais[s]) = 1

\* C8 as stated: the exported view, read again by carregar_dados_2024, gives
\* for every fully well-formed record a record with the same date, status,
\* district and neighbourhood, under the original column names.
C8_RoundTrip ==
    \A s \in sessions : AfterDownload(s) =>
        LET v == View(s)
            again == carregar_dados_2024(csv[s]).df
            wellFormed(r) ==
                /\ r["dt_notific"] # NaT
                /\ r["classi_fin"] # NaN
                /\ HasColumn(v, "nome_distrito") /\ r["id_distrit"] \in DOMAIN MAPA_DISTRITOS
                /\ HasColumn(v, "nm_bairro") /\ r["nm_bairro"] # ""
        IN  /\ \A k \in DOMAIN v.rows : wellFormed(v.rows[k].c) =>
                  /\ k \in DOMAIN again.rows
                  /\ again.rows[k].c["dt_notific"] = v.rows[k].c["dt_notific"]
                  /\ caseStatus(again.rows[k].c["classi_fin"]) = caseStatus(v.rows[k].c["classi_fin"])
                  /\ again.rows[k].c["nome_distrito"] = v.rows[k].c["nome_distrito"]
                  /\ again.rows[k].c["nm_bairro"] = v.rows[k].c["nm_bairro"]
            /\ v.rows # <<>> => \A col \in Range(Raw.columns) : HasColumn(again, col)

\* C9 as stated: every source that can be read loads without an error
\* message into a Dataset with the records of the source that are not
\* discarded, whichever one column it lacks.
C9_MissingColumnNotFatal ==
    cache.set /\ Readable =>
        /\ cache.value.erro = ""
        /\ Labels(cache.value.df) =
              {row.i : row \in {x \in Range(Raw.rows) :
                                   HasColumn(Raw, "classi_fin") => to_numeric(x.c["classi_fin"]) # 5}}

\* The view a selection asks of a Dataset.
ExpectedView(df, tipo, selecionado) ==
    LET keep(r) == /\ HasColumn(df, "nome_distrito") => r.c["nome_distrito"] \in selecionado
                   /\ tipo = Confirmados => r.c["classi_fin"] \in {10, 11, 12}
    IN  [columns |-> df.columns, floats |-> df.floats, rows |-> SelectSeq(df.rows, keep)]

\* C10: whatever the sessions do and in whatever order, the cached Dataset is
\* the one built from the source, every session's Dataset is that one, its
\* published view is the one its own selection asks of the Dataset, with no
\* derived column written into either, and its outputs are those of that view.
C10_DatasetUnchanged ==
    /\ cache.set => cache.value = carregar_dados_2024(file)
    /\ \A s \in sessions :
          /\ pc[s] # "start" => Dataset(s) = cache.value.df
          /\ AfterFiltros(s) =>
                LET expected == ExpectedView(cache.value.df, tipo_visualizacao[s],
                                             distrito_selecionado[s])
                IN  /\ View(s) = expected
                    /\ AfterDownload(s) => csv[s] = to_csv(expected)
                    /\ AfterKPIs(s) =>
                          /\ total_casos[s] = Len(expected.rows)
                          /\ casos_graves[s] = Count(expected, LAMBDA r : r.c["classi_fin"] = 12)
                    /\ AfterTemporal(s) /\ expected.rows # <<>> =>
                          /\ casos_diarios[s] = CasosDiarios(expected)
                          /\ casos_semanais[s] = CasosSemanais(expected)
                    /\ pc[s] = "done" /\ df_idade[s] # "none" =>
                          /\ Deref(s, df_idade[s]).columns = Append(expected.columns, "faixa_etaria")
                          /\ \A n \in DOMAIN df_pyramid[s] :
                                df_pyramid[s][n].Casos =
                                    Count(expected, LAMBDA r :
                                            /\ MascaraIdade(r)
                                            /\ faixa_etaria(r.c["nu_idade_n"]) = df_pyramid[s][n].faixa_etaria
                                            /\ r.c["cs_sexo"] = df_pyramid[s][n].cs_sexo)

\* Two sessions done with different selections, one of them with df_final
\* being the Dataset object itself, after the pyramid wrote its column.
C10_Witness ==
    \E s, t \in sessions :
        /\ s # t
        /\ pc[s] = "done" /\ pc[t] = "done"
        /\ tipo_visualizacao[s] # tipo_visualizacao[t]
        /\ df_final[s] = "df"
        /\ df_idade[s] = "idade"
        /\ HasColumn(Deref(s, "idade"), "faixa_etaria")

=============================================================================
